---- MODULE Spec2Model ----
(***************************************************************************)
(* Model of ml_model/lenny_fall_run_all_workbook.py: the batch run that    *)
(* augments each input raster with constant bands (modify_tif), predicts   *)
(* a value per pixel (predict), exports it, and keeps a success log and an *)
(* error list for the session.                                             *)
(*                                                                         *)
(* Pixel values are integers.  The three non-finite floats are the         *)
(* negative codes NaN, PosInf, NegInf; every other value is finite.        *)
(* A raster is a sequence of bands, a band a sequence of rows, a row a     *)
(* sequence of values (numpy's C order, indices shifted to start at 1).    *)
(***************************************************************************)
EXTENDS Integers, Sequences, FiniteSets, TLC

\* ------------------------------------------------------------------ bounds
NumInputs == 2        \* files listed in INPUT_TIF_FOLDER
MaxRows == 2          \* raster height is 1..MaxRows
MaxCols == 2          \* raster width is 1..MaxCols

\* ------------------------------------------------------- program constants
TargetBands == 12     \* profile.update(count=12)
CanonicalBands == 9   \* "9 - 5": the model's spectral bands
ReducedBands == 5     \* "9 - 5": Landsat's native bands

NaN == -1             \* np.nan
PosInf == -2          \* +inf
NegInf == -3          \* -inf
NonFinite == {NaN, PosInf, NegInf}

\* model_data.NAN_SUBSTITUTE_CONSANT: one finite constant shared by the
\* back-fill bands of modify_tif and the substitution in predict.
NAN_SUBSTITUTE_CONSANT == 0

\* np.isfinite
IsFinite(v) == v \notin NonFinite

\* ------------------------------------------------------------ environment
\* A satellite tag is <<family prefix, rest>>; <<>> is a raster without the tag.
SatelliteTags == {<<"sentinel", "2">>, <<"landsat", "8">>, <<"modis", "">>, <<>>}
\* str.startswith
StartsWith(tag, prefix) == tag # <<>> /\ tag[1] = prefix

KnownLakeIds == {1}
LakeIds == KnownLakeIds \cup {2}
\* model_data.get_constants(id): (SA_SQ_KM, pct_dev, pct_ag) of a known lake.
get_constants(id) == <<10 * id + 1, 10 * id + 2, 10 * id + 3>>

NativeBandCounts == {ReducedBands, CanonicalBands}

\* os.listdir(input_tif_folder): distinct file names.
paths == [i \in 1..NumInputs |-> i]
\* os.path.join(input_tif_folder, name)
JoinPath(name) == <<"INPUT_TIF_FOLDER", name>>

\* The pixel data of an input file of shape <<bands, rows, cols>>: every
\* cell holds a value that names its band and position, except that one
\* cell `bad` = <<band, row, col, value>> (when not <<>>) is non-finite.
SourceRaster(shape, bad) ==
    [b \in 1..shape[1] |-> [r \in 1..shape[2] |-> [c \in 1..shape[3] |->
        IF bad # <<>> /\ bad[1] = b /\ bad[2] = r /\ bad[3] = c
        THEN bad[4] ELSE 100 * b + 10 * r + c]]]

BadCells(shape) ==
    {<<>>}
    \cup {<<1, r, c, v>> : r \in 1..shape[2], c \in 1..shape[3], v \in NonFinite}
    \cup {<<2, r, c, NaN>> : r \in 1..shape[2], c \in 1..shape[3]}

Estimators == {"constant", "weighted"}

VARIABLES
    andrew_model,        \* the estimator of the run
    IS_IN_PRODUCTION_MODE,
    idx,                 \* position of the for loop in paths
    pc,                  \* the statement the run is at
    tags,                \* tags of the current item: [satellite, id]
    shape,               \* <<count, height, width>> of the current input file
    consts,              \* constants looked up for the current item
    source,              \* raster_data read from the input file by modify_tif
    modified,            \* the *_modified file: band index -> band
    raster_data_2d,      \* the sample matrix handed to the estimator
    predictions_raster,  \* what predict returned and wrote
    completed,           \* paths whose last export step has returned
    successLog,          \* lines of successes_<session>.status.txt
    error_paths,
    printed,             \* the texts of print("Error: ", e)
    exc,                 \* the exception in flight, "" if none
    report,              \* the counts of the final print, <<>> before it
    errorFile            \* error_paths_<session>.json, <<>> before it is written

vars == <<andrew_model, IS_IN_PRODUCTION_MODE, idx, pc, tags, shape, consts,
          source, modified, raster_data_2d, predictions_raster, completed,
          successLog, error_paths, printed, exc, report, errorFile>>

path_tif == JoinPath(paths[idx])

NoTags == [satellite |-> <<>>, id |-> 0]
NoShape == <<0, 0, 0>>

\* ------------------------------------------------------------- modify_tif
\* np.full_like(raster_data[0], value, dtype=raster_data.dtype)
full_like(band, value) == [r \in DOMAIN band |-> [c \in DOMAIN band[r] |-> value]]

\* Lines 99-104: only the two recognized prefixes pass; anything else raises.
SatelliteImplemented(satellite) ==
    StartsWith(satellite, "sentinel") \/ StartsWith(satellite, "landsat")

\* Line 111, inside the writer block: assigned on every path, so the 0 that
\* line 100 chose for sentinel rasters is overwritten before it is used.
bands_to_fill == CanonicalBands - ReducedBands

ConstantBandsSwapped(raster_data, constants) ==
    <<full_like(raster_data[1], constants[1]),
      full_like(raster_data[1], constants[3]),
      full_like(raster_data[1], constants[2])>>

\* Lines 89-92: SA_SQ_KM_band, pct_dev_band, pct_ag_band, in write order.
ConstantBands(raster_data, constants) ==
    <<full_like(raster_data[1], constants[1]),
      full_like(raster_data[1], constants[2]),
      full_like(raster_data[1], constants[3])>>

\* Lines 108-120: the dst.write calls in program order, as <<index, band>>.
BandWrites(raster_data, constants) ==
    LET n == Len(raster_data)
        null_band == full_like(raster_data[1], NAN_SUBSTITUTE_CONSANT)
        extra == ConstantBands(raster_data, constants)
    IN  [i \in 1..n |-> <<i, raster_data[i]>>]
        \o [k \in 1..bands_to_fill |-> <<n + k, null_band>>]
        \o [k \in 1..3 |-> <<n + bands_to_fill + k, extra[k]>>]

\* dst.write(band, indexes=i) on a dataset of TargetBands bands raises for
\* an index outside 1..TargetBands; the writes before it have happened.
WritesDone(writes) ==
    LET bad == {k \in DOMAIN writes : writes[k][1] \notin 1..TargetBands}
    IN  IF bad = {} THEN Len(writes)
        ELSE (CHOOSE k \in bad : \A j \in bad : k <= j) - 1

\* modify_tif after src.read(): the exception text ("" when it returns) and
\* the bands the output file holds.
modify_tif(raster_data, satellite, constants) ==
    IF satellite = <<>> THEN [exc |-> "KeyError", file |-> <<>>]
    ELSE IF ~SatelliteImplemented(satellite)
    THEN [exc |-> "not implemented", file |-> <<>>]
    ELSE LET writes == BandWrites(raster_data, constants)
             done == WritesDone(writes)
             file == [i \in {writes[k][1] : k \in 1..done} |->
                        writes[CHOOSE k \in 1..done : writes[k][1] = i][2]]
         IN  [exc |-> IF done = Len(writes) THEN "" ELSE "IndexError",
              file |-> file]

\* ---------------------------------------------------------------- predict
\* raster_data.transpose(1, 2, 0): axes (band, row, col) -> (row, col, band).
Transpose120(a) ==
    [r \in DOMAIN a[1] |-> [c \in DOMAIN a[1][r] |-> [b \in DOMAIN a |-> a[b][r][c]]]]

\* The elements of a 3-D array d1 x d2 x d3 in C order.
Ravel(a, d1, d2, d3) ==
    [k \in 1..(d1 * d2 * d3) |->
        a[((k - 1) \div (d2 * d3)) + 1][(((k - 1) \div d3) % d2) + 1][((k - 1) % d3) + 1]]

\* flat.reshape((n, m)) in C order.
Reshape2(flat, n, m) == [i \in 1..n |-> [j \in 1..m |-> flat[(i - 1) * m + j]]]

\* Line 137: raster_data.transpose(1, 2, 0).reshape((n_samples, n_bands))
SampleMatrix(raster_data) ==
    LET n_bands == Len(raster_data)
        n_rows == Len(raster_data[1])
        n_cols == Len(raster_data[1][1])
    IN  Reshape2(Ravel(Transpose120(raster_data), n_rows, n_cols, n_bands),
                 n_rows * n_cols, n_bands)

\* The mask as it would be if line 139 ran after line 141: raster_data_2d is a
\* view of raster_data, so the first band would already hold the substitute.
MaskAfterSubstitution(raster_data) ==
    [r \in DOMAIN raster_data[1] |-> [c \in DOMAIN raster_data[1][r] |->
        ~IsFinite(IF IsFinite(raster_data[1][r][c])
                  THEN raster_data[1][r][c] ELSE NAN_SUBSTITUTE_CONSANT)]]

\* Line 139: ~np.isfinite(raster_data[0]), taken before the substitution.
non_finite_val_mask(raster_data) ==
    [r \in DOMAIN raster_data[1] |-> [c \in DOMAIN raster_data[1][r] |->
        ~IsFinite(raster_data[1][r][c])]]

\* Line 141: raster_data_2d[~np.isfinite(raster_data_2d)] = NAN_SUBSTITUTE_CONSANT
Substitute(matrix) ==
    [i \in DOMAIN matrix |-> [j \in DOMAIN matrix[i] |->
        IF IsFinite(matrix[i][j]) THEN matrix[i][j] ELSE NAN_SUBSTITUTE_CONSANT]]

RECURSIVE WeightedSum(_, _)
WeightedSum(row, j) == IF j = 0 THEN 0 ELSE j * row[j] + WeightedSum(row, j - 1)

\* andrew_model.predict on one sample: finite for every finite sample.
Estimate(model, row) ==
    IF model = "constant" THEN 42 ELSE WeightedSum(row, Len(row))

\* Line 144: one prediction per sample, in sample order.
ModelPredict(model, matrix) == [i \in DOMAIN matrix |-> Estimate(model, matrix[i])]

ReshapeColumnMajor(predictions, n_rows, n_cols) ==
    [r \in 1..n_rows |-> [c \in 1..n_cols |-> predictions[(c - 1) * n_rows + r]]]

\* Line 158: predictions.reshape(n_rows, n_cols)
ReshapePredictions(predictions, n_rows, n_cols) == Reshape2(predictions, n_rows, n_cols)

\* Line 160: predictions_raster[non_finite_val_mask] = np.nan
ApplyMask(grid, mask) ==
    [r \in DOMAIN grid |-> [c \in DOMAIN grid[r] |->
        IF mask[r][c] THEN NaN ELSE grid[r][c]]]

\* predict on the reopened *_modified file: the sample matrix the estimator
\* saw and the prediction raster returned.
predict(model, raster_data) ==
    LET n_rows == Len(raster_data[1])
        n_cols == Len(raster_data[1][1])
        mask == non_finite_val_mask(raster_data)
        samples == Substitute(SampleMatrix(raster_data))
        predictions == ModelPredict(model, samples)
    IN  [raster_data_2d |-> samples,
         predictions_raster |->
            ApplyMask(ReshapePredictions(predictions, n_rows, n_cols), mask)]

\* -------------------------------------------------------------- the run
Init ==
    /\ andrew_model \in Estimators
    /\ IS_IN_PRODUCTION_MODE \in BOOLEAN
    /\ idx = 1
    /\ pc = IF NumInputs = 0 THEN "report" ELSE "open"
    /\ tags = NoTags
    /\ shape = NoShape
    /\ consts = <<>>
    /\ source = <<>>
    /\ modified = <<>>
    /\ raster_data_2d = <<>>
    /\ predictions_raster = <<>>
    /\ completed = {}
    /\ successLog = <<>>
    /\ error_paths = <<>>
    /\ printed = <<>>
    /\ exc = ""
    /\ report = <<>>
    /\ errorFile = <<>>

item == <<tags, shape, consts, source, modified, raster_data_2d, predictions_raster>>
ledger == <<completed, successLog, error_paths, printed, report, errorFile>>
config == <<andrew_model, IS_IN_PRODUCTION_MODE>>

\* The values of the iteration that are dead once it ends: the looked-up
\* constants, the rasters and the prediction.
Forget ==
    /\ consts' = <<>>
    /\ source' = <<>>
    /\ modified' = <<>>
    /\ raster_data_2d' = <<>>
    /\ predictions_raster' = <<>>

\* A statement raised: control goes to the except clause of the loop body,
\* which reads only the exception and path_tif.
Raise(text) ==
    /\ pc' = "except"
    /\ exc' = text
    /\ UNCHANGED <<tags, shape>>
    /\ Forget

\* The loop moves to the next path, or past the loop after the last one; the
\* names of the iteration are rebound by the next one.
NextItem ==
    /\ idx' = idx + 1
    /\ pc' = IF idx = NumInputs THEN "report" ELSE "open"
    /\ tags' = NoTags
    /\ shape' = NoShape
    /\ Forget

RetryItem ==
    /\ idx' = idx
    /\ pc' = "open"
    /\ tags' = NoTags
    /\ shape' = NoShape
    /\ Forget

\* Lines 245-262: open the file, read its tags and its extent.
OpenRaster ==
    /\ pc = "open"
    /\ \E env_ok \in BOOLEAN, satellite \in SatelliteTags, id \in LakeIds,
          count \in NativeBandCounts, height \in 1..MaxRows, width \in 1..MaxCols :
          IF env_ok
          THEN /\ tags' = [satellite |-> satellite, id |-> id]
               /\ shape' = <<count, height, width>>
               /\ pc' = "get_constants"
               /\ UNCHANGED <<exc, consts, source, modified, raster_data_2d,
                              predictions_raster>>
          ELSE Raise("IOError")
    /\ UNCHANGED <<idx, ledger, config>>

\* Line 266: model_data.get_constants(id) raises for an id it does not know.
GetConstants ==
    /\ pc = "get_constants"
    /\ IF tags.id \in KnownLakeIds
       THEN /\ consts' = get_constants(tags.id)
            /\ pc' = "modify_tif"
            /\ UNCHANGED <<exc, tags, shape, source, modified, raster_data_2d,
                           predictions_raster>>
       ELSE Raise("LookupError")
    /\ UNCHANGED <<idx, ledger, config>>

\* Line 269: modify_tif(path_tif, ...) reads the input file and writes the
\* *_modified file.
ModifyTif ==
    /\ pc = "modify_tif"
    /\ \E env_ok \in BOOLEAN, bad \in BadCells(shape) :
          LET raster_data == SourceRaster(shape, bad)
              result == modify_tif(raster_data, tags.satellite, consts)
          IN  IF ~env_ok THEN Raise("IOError")
              ELSE IF result.exc # "" THEN Raise(result.exc)
              ELSE /\ source' = raster_data
                   /\ modified' = result.file
                   /\ pc' = "predict"
                   /\ UNCHANGED <<exc, tags, shape, consts, raster_data_2d,
                                  predictions_raster>>
    /\ UNCHANGED <<idx, ledger, config>>

\* Line 271: predict(path_tif, id, tags, ...) reopens the *_modified file.
Predict ==
    /\ pc = "predict"
    /\ \E env_ok \in BOOLEAN :
          IF env_ok
          THEN LET result == predict(andrew_model, modified)
               IN  /\ raster_data_2d' = result.raster_data_2d
                   /\ predictions_raster' = result.predictions_raster
                   /\ pc' = "save_png"
                   /\ UNCHANGED <<exc, tags, shape, consts, source, modified>>
          ELSE Raise("IOError")
    /\ UNCHANGED <<idx, ledger, config>>

\* Line 276: save_png draws the prediction, the last use of the rasters of
\* the iteration; outside production mode it is the last export step.
SavePng ==
    /\ pc = "save_png"
    /\ \E env_ok \in BOOLEAN :
          IF env_ok
          THEN /\ pc' = IF IS_IN_PRODUCTION_MODE THEN "upload" ELSE "record"
               /\ completed' = IF IS_IN_PRODUCTION_MODE THEN completed
                               ELSE completed \cup {path_tif}
               /\ UNCHANGED <<exc, tags, shape>>
               /\ Forget
          ELSE /\ Raise("IOError")
               /\ completed' = completed
    /\ UNCHANGED <<idx, successLog, error_paths, printed, report, errorFile,
                   config>>

\* Lines 278-279: upload_spatial_map, in production mode only.
Upload ==
    /\ pc = "upload"
    /\ \E env_ok \in BOOLEAN :
          IF env_ok
          THEN /\ pc' = "record"
               /\ completed' = completed \cup {path_tif}
               /\ UNCHANGED <<exc, item>>
          ELSE /\ Raise("IOError")
               /\ completed' = completed
    /\ UNCHANGED <<idx, successLog, error_paths, printed, report, errorFile,
                   config>>

OverwriteLog(log, path) == <<path>>

\* The status file is opened in mode "a": the path goes after what is there.
AppendLog(log, path) == Append(log, path)

\* Lines 281-284: append the path to the success log, then the next item.
RecordSuccess ==
    /\ pc = "record"
    /\ \E env_ok \in BOOLEAN :
          IF env_ok
          THEN /\ successLog' = AppendLog(successLog, path_tif)
               /\ NextItem
               /\ exc' = exc
          ELSE /\ Raise("IOError")
               /\ UNCHANGED <<idx, successLog>>
    /\ UNCHANGED <<completed, error_paths, printed, report, errorFile, config>>

RetryException ==
    /\ pc = "except"
    /\ printed' = Append(printed, exc)
    /\ error_paths' = Append(error_paths, path_tif)
    /\ exc' = ""
    /\ RetryItem
    /\ UNCHANGED <<completed, successLog, report, errorFile, config>>

SwallowException ==
    /\ pc = "except"
    /\ printed' = Append(printed, exc)
    /\ error_paths' = error_paths
    /\ exc' = ""
    /\ NextItem
    /\ UNCHANGED <<completed, successLog, report, errorFile, config>>

\* Lines 285-287: print the error, remember the path, go on with the loop.
HandleException ==
    /\ pc = "except"
    /\ printed' = Append(printed, exc)
    /\ error_paths' = Append(error_paths, path_tif)
    /\ exc' = ""
    /\ NextItem
    /\ UNCHANGED <<completed, successLog, report, errorFile, config>>

\* Lines 289-290: the closing message with its two counts.
Report ==
    /\ pc = "report"
    /\ report' = [uploads |-> Len(paths), errors |-> Len(error_paths)]
    /\ pc' = "write_errors"
    /\ UNCHANGED <<idx, item, completed, successLog, error_paths, printed,
                   exc, errorFile, config>>

DumpAllButLast(list) == [k \in 1..(Len(list) - 1) |-> [path |-> list[k]]]

\* json.dumps(error_paths): a JSON array with one string, the path, per entry.
JsonDumps(list) == [k \in DOMAIN list |-> [path |-> list[k]]]

\* Lines 292-293: write the error list.
WriteErrors ==
    /\ pc = "write_errors"
    /\ errorFile' = JsonDumps(error_paths)
    /\ pc' = "done"
    /\ UNCHANGED <<idx, item, completed, successLog, error_paths, printed,
                   exc, report, config>>

Next ==
    \/ OpenRaster
    \/ GetConstants
    \/ ModifyTif
    \/ Predict
    \/ SavePng
    \/ Upload
    \/ RecordSuccess
    \/ HandleException
    \/ Report
    \/ WriteErrors

Spec == Init /\ [][Next]_vars

\* The script is one sequential thread: whenever a statement can run, it runs.
FairSpec == Spec /\ WF_vars(Next)

\* ------------------------------------------------------------ properties
Range(seq) == {seq[k] : k \in DOMAIN seq}

Uniform(band, value) == \A r \in DOMAIN band : \A c \in DOMAIN band[r] : band[r][c] = value

\* The exceptions modify_tif raises by itself, as opposed to a failing disk.
ModifyTifErrors == {"KeyError", "not implemented", "IndexError"}

\* What the estimator is given for band j of a pixel holding value v.
Fed(v) == IF IsFinite(v) THEN v ELSE NAN_SUBSTITUTE_CONSANT

\* C1: a sentinel raster with the 9 canonical bands is augmented without
\* error to 12 bands: its 9 bands unchanged, no back-fill band, and bands 10,
\* 11, 12 uniformly area, pctDev, pctAg.
C1Claim ==
    (StartsWith(tags.satellite, "sentinel") /\ shape[1] = CanonicalBands) =>
        /\ exc \notin ModifyTifErrors
        /\ pc = "predict" =>
            /\ DOMAIN modified = 1..TargetBands
            /\ \A b \in 1..CanonicalBands : modified[b] = source[b]
            /\ \A k \in 1..3 : Uniform(modified[CanonicalBands + k], consts[k])

\* C2: a landsat raster with the 5 reduced bands is augmented to 12 bands:
\* bands 1-5 are the source bands in order, bands 6-9 are uniformly the
\* substitute constant, bands 10, 11, 12 are uniformly area, percent
\* developed, percent agricultural.
C2Theorem ==
    (StartsWith(tags.satellite, "landsat") /\ shape[1] = ReducedBands) =>
        /\ exc \notin ModifyTifErrors
        /\ pc \in {"predict", "save_png"} =>
            /\ DOMAIN modified = 1..TargetBands
            /\ \A b \in 1..ReducedBands : modified[b] = source[b]
            /\ \A b \in (ReducedBands + 1)..CanonicalBands :
                  /\ DOMAIN modified[b] = 1..shape[2]
                  /\ \A r \in 1..shape[2] : DOMAIN modified[b][r] = 1..shape[3]
                  /\ Uniform(modified[b], NAN_SUBSTITUTE_CONSANT)
            /\ \A k \in 1..3 :
                  /\ DOMAIN modified[CanonicalBands + k] = 1..shape[2]
                  /\ Uniform(modified[CanonicalBands + k], get_constants(tags.id)[k])

C2Witness ==
    /\ pc = "predict"
    /\ StartsWith(tags.satellite, "landsat")
    /\ shape = <<ReducedBands, MaxRows, MaxCols>>
    /\ DOMAIN modified = 1..TargetBands

\* C3: a pixel whose first band is non-finite in the input raster is NaN in
\* the prediction raster, whatever the estimator returned for it.
C3Theorem ==
    pc = "save_png" =>
        \A r \in 1..shape[2] : \A c \in 1..shape[3] :
            ~IsFinite(source[1][r][c]) => predictions_raster[r][c] = NaN

C3Witness ==
    /\ pc = "save_png"
    /\ \E r \in 1..shape[2] : \E c \in 1..shape[3] :
          /\ source[1][r][c] = PosInf
          /\ IsFinite(Estimate(andrew_model, raster_data_2d[(r - 1) * shape[3] + c]))
          /\ predictions_raster[r][c] = NaN

\* C4: a pixel with a non-finite value in any of its bands, replaced by the
\* substitute constant before the estimator call, is NaN in the prediction
\* raster.
C4Claim ==
    pc = "save_png" =>
        \A r \in 1..shape[2] : \A c \in 1..shape[3] :
            (\E b \in DOMAIN modified :
                /\ ~IsFinite(modified[b][r][c])
                /\ raster_data_2d[(r - 1) * shape[3] + c][b] = NAN_SUBSTITUTE_CONSANT)
            => predictions_raster[r][c] = NaN

\* C5: pixel (r, c) is sample r*cols + c (counting from 0), feature j of the
\* sample is band j at (r, c), the prediction raster has rows x cols cells,
\* and an unmasked pixel holds the estimator's output for its own sample.
C5Theorem ==
    pc = "save_png" =>
        /\ DOMAIN raster_data_2d = 1..(shape[2] * shape[3])
        /\ DOMAIN predictions_raster = 1..shape[2]
        /\ \A r \in 1..shape[2] :
              /\ DOMAIN predictions_raster[r] = 1..shape[3]
              /\ \A c \in 1..shape[3] :
                    LET sample == (r - 1) * shape[3] + c
                        own == [j \in 1..TargetBands |-> Fed(modified[j][r][c])]
                    IN  /\ raster_data_2d[sample] = own
                        /\ IsFinite(source[1][r][c]) =>
                              predictions_raster[r][c] = Estimate(andrew_model, own)

C5Witness ==
    /\ pc = "save_png"
    /\ andrew_model = "weighted"
    /\ shape[2] = MaxRows
    /\ shape[3] = MaxCols
    /\ \A r \in 1..shape[2] : \A c \in 1..shape[3] : IsFinite(predictions_raster[r][c])
    /\ predictions_raster[1][MaxCols] # predictions_raster[MaxRows][1]

\* How often x occurs in seq.
Occurrences(seq, x) == Cardinality({k \in DOMAIN seq : seq[k] = x})

ErrorFilePaths == [k \in DOMAIN errorFile |-> errorFile[k].path]

\* C6: once the error list is written, the success log and the error list
\* together have as many entries as there are inputs, and every input path is
\* in exactly one of them, exactly once.
C6Theorem ==
    pc = "done" =>
        /\ Len(successLog) + Len(errorFile) = NumInputs
        /\ \A i \in 1..NumInputs :
              Occurrences(successLog, JoinPath(paths[i]))
              + Occurrences(ErrorFilePaths, JoinPath(paths[i])) = 1

C6Witness ==
    /\ pc = "done"
    /\ Len(successLog) >= 1
    /\ Len(errorFile) >= 1

\* C7: the success count of the final report is the number of success-log
\* entries and its failure count is the length of the error list.
C7Claim ==
    pc \in {"write_errors", "done"} =>
        /\ report.uploads = Len(successLog)
        /\ report.errors = Len(error_paths)

\* The paths among the first k inputs whose last export step has returned,
\* in input order.
RECURSIVE CompletedUpTo(_)
CompletedUpTo(k) ==
    IF k = 0 THEN <<>>
    ELSE CompletedUpTo(k - 1)
         \o (IF JoinPath(paths[k]) \in completed THEN <<JoinPath(paths[k])>> ELSE <<>>)

\* C8 (as stated): at every point of the run the success log is exactly the
\* paths of the items that completed all their stages, in input order.
C8Claim == successLog = CompletedUpTo(NumInputs)

\* C8 (amended): every entry of the success log is an item that completed
\* all its stages, entries are in input order without repetition, an item
\* that completed all its stages is in the log once its iteration has ended
\* without an exception, a path is appended only after its last export step
\* returned, and no entry is removed or rewritten.
C8LogSound ==
    /\ \A n \in DOMAIN successLog : successLog[n] \in completed
    /\ \A m, n \in DOMAIN successLog : m < n => successLog[m][2] < successLog[n][2]
    /\ \A k \in 1..NumInputs :
          (k < idx /\ JoinPath(paths[k]) \in completed
                   /\ JoinPath(paths[k]) \notin Range(error_paths))
          => JoinPath(paths[k]) \in Range(successLog)

C8AppendOnly ==
    \/ successLog' = successLog
    \/ /\ pc = "record"
       /\ path_tif \in completed
       /\ successLog' = Append(successLog, path_tif)

C8Theorem == []C8LogSound /\ [][C8AppendOnly]_vars

C8Witness ==
    /\ Len(successLog) >= 2
    /\ Len(error_paths) = 0

\* C9: an exception in an item puts that item's path, and nothing else, on
\* the error list, gives it no success-log entry, is not retried, lets the
\* loop go on with the next item, and the run reaches its end however many
\* items fail.
C9Handled ==
    pc = "except" =>
        /\ error_paths' = Append(error_paths, path_tif)
        /\ printed' = Append(printed, exc)
        /\ successLog' = successLog
        /\ idx' = idx + 1
        /\ pc' = IF idx = NumInputs THEN "report" ELSE "open"

C9Isolated ==
    /\ Range(error_paths) \cap Range(successLog) = {}
    /\ \A k \in DOMAIN error_paths : Occurrences(error_paths, error_paths[k]) = 1
    /\ pc = "except" => path_tif \notin Range(successLog)

C9Theorem ==
    /\ [][C9Handled]_vars
    /\ [][idx' \in {idx, idx + 1}]_vars
    /\ []C9Isolated
    /\ <>(pc = "done")

C9Witness ==
    /\ pc = "done"
    /\ Len(error_paths) = NumInputs
    /\ "IndexError" \in Range(printed)
    /\ "LookupError" \in Range(printed)

\* C10 (as stated): the written error document holds, for every failed item,
\* its path together with the error text captured when it failed.
C10Claim ==
    pc = "done" =>
        \A k \in DOMAIN error_paths :
            \E n \in DOMAIN errorFile :
                /\ errorFile[n].path = error_paths[k]
                /\ "reason" \in DOMAIN errorFile[n]
                /\ errorFile[n].reason = printed[k]

\* C10 (amended): the written error document is the list of the failed
\* paths, in the order they failed, and nothing else; the error text of each
\* failure was printed when it happened and is not in the document.
C10Theorem ==
    pc = "done" =>
        /\ Len(printed) = Len(error_paths)
        /\ DOMAIN errorFile = DOMAIN error_paths
        /\ \A k \in DOMAIN error_paths :
              /\ DOMAIN errorFile[k] = {"path"}
              /\ errorFile[k].path = error_paths[k]

C10Witness ==
    /\ pc = "done"
    /\ \E k \in DOMAIN errorFile :
          /\ printed[k] = "not implemented"
          /\ errorFile[k].path = JoinPath(paths[NumInputs])

====
